---------------------------- MODULE Spec2Model ----------------------------
(***************************************************************************)
(* A model of chembl_ident/chembl_ident.py: the composite identifier       *)
(* ChemblIdent and the index store ChemblIndexes (gen_indexes,             *)
(* save_indexes, load_indexes, __init__ and the query methods).            *)
(*                                                                         *)
(* Python values are modelled as follows.                                  *)
(*   None / a value x      the sequences << >> and <<x>>                   *)
(*   str                   a sequence of one-character strings             *)
(*   dict                  a function whose domain is the set of keys      *)
(*   set                   a set                                           *)
(*   ChemblIdent           a record chembl_id, drugbase_id, molregno       *)
(*   an attribute of self  a record [st, v]: st is "unset" (the attribute  *)
(*                         was never assigned), "None" or "dict"           *)
(*   a file of data_dir    a record [st, data]: st is "missing", "empty",  *)
(*                         "null" (the JSON text null) or "ok"             *)
(***************************************************************************)
EXTENDS Integers, Sequences, FiniteSets, TLC

\* ------------------------------------------------------------- bounds
MaxId == 1
MaxRows == 2
MaxHierRows == 1
MaxQueryRows == 1
MaxDigits == 2
MaxPhase == 1
MaxDamaged == 1

\* ------------------------------------------------- program constants
\* get_tuple's substitute for a None field
NullKey == -1
\* get_phase's substitute for a missing phase
Sentinel == -5
\* the length of "CHEMBL", chopped off by get_tuple
PrefixLen == 6

VARIABLES
    rows,   \* what the cursor yields for each query of gen_indexes
    self,   \* the attributes of the ChemblIndexes instance
    disk,   \* the files of data_dir
    last,   \* the last constructor/build/save/load call and how it ended
    ret,    \* the last query (or comparison) and what it returned or raised
    lhs,    \* the left operand of a ChemblIdent comparison
    rhs     \* the right operand of a ChemblIdent comparison

vars == <<rows, self, disk, last, ret, lhs, rhs>>

\* ------------------------------------------------------ Python values
None == << >>
Some(x) == <<x>>
IsNone(o) == Len(o) = 0
Val(o) == o[1]

\* bool(x) of an Optional[int]: None and 0 are false
TruthyInt(o) == ~IsNone(o) /\ Val(o) # 0
\* bool(x) of an Optional[str]: None and "" are false
TruthyStr(o) == ~IsNone(o) /\ Len(Val(o)) > 0

EmptyDict == [k \in {} |-> None]
\* d[k] = v
Put(d, k, v) == [x \in (DOMAIN d) \cup {k} |-> IF x = k THEN v ELSE d[x]]
\* d[k].update(vs) on a defaultdict(set)
AddAll(d, k, vs) == Put(d, k, (IF k \in DOMAIN d THEN d[k] ELSE {}) \cup vs)

DigitChars == <<"0", "1", "2", "3", "4", "5", "6", "7", "8", "9">>
IsDigit(c) == \E i \in 1..10 : DigitChars[i] = c
DigitOf(c) == (CHOOSE i \in 1..10 : DigitChars[i] = c) - 1

RECURSIVE DigitsValue(_)
DigitsValue(s) ==
    IF Len(s) = 0 THEN 0
    ELSE DigitsValue(SubSeq(s, 1, Len(s) - 1)) * 10 + DigitOf(s[Len(s)])

Unsigned(s) == IF Len(s) > 0 /\ s[1] \in {"-", "+"} THEN Tail(s) ELSE s
\* int(s) succeeds: an optional sign and at least one digit
IsIntLiteral(s) ==
    /\ Len(Unsigned(s)) > 0
    /\ \A i \in 1..Len(Unsigned(s)) : IsDigit(Unsigned(s)[i])
\* int(s) of a str
PyInt(s) ==
    IF Len(s) > 0 /\ s[1] = "-" THEN 0 - DigitsValue(Unsigned(s))
    ELSE DigitsValue(Unsigned(s))

RECURSIVE NatStr(_)
NatStr(n) ==
    IF n < 10 THEN <<DigitChars[n + 1]>>
    ELSE NatStr(n \div 10) \o <<DigitChars[(n % 10) + 1]>>
\* str(n) of an int
PyStr(n) == IF n < 0 THEN <<"-">> \o NatStr(0 - n) ELSE NatStr(n)

\* --------------------------------------------------------- ChemblIdent
CHEMBL == <<"C", "H", "E", "M", "B", "L">>

\* ChemblIdent(chembl_id, drugbase_id, molregno)
ChemblIdent(c, d, m) == [chembl_id |-> c, drugbase_id |-> d, molregno |-> m]

\* ChemblIdent.__eq__
Ident_eq(x, y) ==
    <<x.chembl_id, x.drugbase_id, x.molregno>>
        = <<y.chembl_id, y.drugbase_id, y.molregno>>

\* get_tuple with a seeded fault: a None molregno is keyed 0
get_tuple_zero(obj) ==
    << IF IsNone(obj.chembl_id) THEN NullKey
       ELSE PyInt(SubSeq(Val(obj.chembl_id), PrefixLen + 1, Len(Val(obj.chembl_id)))),
       IF IsNone(obj.drugbase_id) THEN NullKey ELSE Val(obj.drugbase_id),
       IF IsNone(obj.molregno) THEN 0 ELSE Val(obj.molregno) >>

\* get_tuple, local to ChemblIdent.__lt__
get_tuple(obj) ==
    << IF IsNone(obj.chembl_id) THEN NullKey
       ELSE PyInt(SubSeq(Val(obj.chembl_id), PrefixLen + 1, Len(Val(obj.chembl_id)))),
       IF IsNone(obj.drugbase_id) THEN NullKey ELSE Val(obj.drugbase_id),
       IF IsNone(obj.molregno) THEN NullKey ELSE Val(obj.molregno) >>

\* Python's < on two tuples of three ints
TupleLess(s, t) ==
    \/ s[1] < t[1]
    \/ s[1] = t[1] /\ s[2] < t[2]
    \/ s[1] = t[1] /\ s[2] = t[2] /\ s[3] < t[3]

\* ChemblIdent.__lt__
Ident_lt(x, y) == TupleLess(get_tuple(x), get_tuple(y))

\* ChemblIdent.__tuple__
Ident_tuple(x) == <<x.chembl_id, x.drugbase_id, x.molregno>>


\* ------------------------------------------------------- ChemblIndexes
\* the attributes of self, in the order save_indexes and load_indexes
\* go through their files
Fields ==
    << "drugbase_id2mrn", "mrn2drugbase_id", "chembl_id2mrn", "mrn2chembl_id",
       "compound_parents", "compound_children", "source_map",
       "drugbase_id2source_id", "mrn2phase", "drugbase_id2phase" >>
FieldSet == {Fields[i] : i \in 1..Len(Fields)}
\* the two files written with pickle; the others are JSON
PickleFields == {"compound_parents", "compound_children"}

UnsetAttr == [st |-> "unset", v |-> EmptyDict]
NoneAttr == [st |-> "None", v |-> EmptyDict]
DictAttr(d) == [st |-> "dict", v |-> d]

\* what a method returns (a Python value) or raises
Return(x) == [exc |-> "none", val |-> x]
Raise(e) == [exc |-> e, val |-> None]

\* the exception of evaluating  k in self.f  or  self.f[k]
AccessExc(s, f) ==
    IF s[f].st = "unset" THEN "AttributeError"
    ELSE IF s[f].st = "None" THEN "TypeError"
    ELSE "none"

\* self.f.get(k), written in the source as  if k in self.f: return self.f[k]
Lookup(s, f, k) ==
    IF AccessExc(s, f) # "none" THEN Raise(AccessExc(s, f))
    ELSE IF k \in DOMAIN s[f].v THEN Return(s[f].v[k])
    ELSE Return(None)

\* ChemblIndexes.get_molregno
get_molregno(s, drugbase_id, chembl_id) ==
    IF AccessExc(s, "drugbase_id2mrn") # "none"
    THEN Raise(AccessExc(s, "drugbase_id2mrn"))
    ELSE IF drugbase_id \in DOMAIN s.drugbase_id2mrn.v
    THEN Return(s.drugbase_id2mrn.v[drugbase_id])
    ELSE Lookup(s, "chembl_id2mrn", chembl_id)

\* ChemblIndexes.get_drugbase_id
get_drugbase_id(s, molregno) == Lookup(s, "mrn2drugbase_id", molregno)

\* ChemblIndexes.get_chembl_id
get_chembl_id(s, molregno) == Lookup(s, "mrn2chembl_id", molregno)

\* any([molregno, drugbase_id, chembl_id])
AnyTruthy(molregno, drugbase_id, chembl_id) ==
    TruthyInt(molregno) \/ TruthyInt(drugbase_id) \/ TruthyStr(chembl_id)

\* get_chembl_ident with a seeded fault: chembl_id is looked up under the molregno
\* argument, not under the molregno derived from the other ids
get_chembl_ident_early(s, molregno, drugbase_id, chembl_id) ==
    LET r1 == IF IsNone(molregno) THEN get_molregno(s, drugbase_id, chembl_id)
              ELSE Return(molregno)
        r2 == IF IsNone(chembl_id) THEN get_chembl_id(s, molregno)
              ELSE Return(chembl_id)
        r3 == IF IsNone(drugbase_id) THEN get_drugbase_id(s, r1.val)
              ELSE Return(drugbase_id)
    IN  IF r1.exc # "none" THEN Raise(r1.exc)
        ELSE IF r2.exc # "none" THEN Raise(r2.exc)
        ELSE IF r3.exc # "none" THEN Raise(r3.exc)
        ELSE IF AnyTruthy(r1.val, r3.val, r2.val)
        THEN Return(Some(ChemblIdent(r2.val, r3.val, r1.val)))
        ELSE Return(None)

\* ChemblIndexes.get_chembl_ident
get_chembl_ident(s, molregno, drugbase_id, chembl_id) ==
    LET r1 == IF IsNone(molregno) THEN get_molregno(s, drugbase_id, chembl_id)
              ELSE Return(molregno)
        r2 == IF IsNone(chembl_id) THEN get_chembl_id(s, r1.val)
              ELSE Return(chembl_id)
        r3 == IF IsNone(drugbase_id) THEN get_drugbase_id(s, r1.val)
              ELSE Return(drugbase_id)
    IN  IF r1.exc # "none" THEN Raise(r1.exc)
        ELSE IF r2.exc # "none" THEN Raise(r2.exc)
        ELSE IF r3.exc # "none" THEN Raise(r3.exc)
        ELSE IF AnyTruthy(r1.val, r3.val, r2.val)
        THEN Return(Some(ChemblIdent(r2.val, r3.val, r1.val)))
        ELSE Return(None)

\* the first lines of get_parents, get_children and get_phase:
\*   if obj is None: obj = self.get_chembl_ident(...)
ObjOrIdent(s, obj, drugbase_id, molregno, chembl_id) ==
    IF IsNone(obj) THEN get_chembl_ident(s, molregno, drugbase_id, chembl_id)
    ELSE Return(obj)

\* ChemblIndexes.get_parents
get_parents(s, obj, drugbase_id, molregno, chembl_id) ==
    LET o == ObjOrIdent(s, obj, drugbase_id, molregno, chembl_id)
    IN  IF o.exc # "none" THEN Raise(o.exc)
        ELSE IF IsNone(o.val) THEN Return(None)
        ELSE IF AccessExc(s, "compound_parents") # "none"
        THEN Raise(AccessExc(s, "compound_parents"))
        ELSE IF o.val \in DOMAIN s.compound_parents.v
        THEN Return(Some(s.compound_parents.v[o.val]))
        ELSE Return(None)

\* ChemblIndexes.get_children
get_children(s, obj, drugbase_id, molregno, chembl_id) ==
    LET o == ObjOrIdent(s, obj, drugbase_id, molregno, chembl_id)
    IN  IF o.exc # "none" THEN Raise(o.exc)
        ELSE IF IsNone(o.val) THEN Return(None)
        ELSE IF AccessExc(s, "compound_children") # "none"
        THEN Raise(AccessExc(s, "compound_children"))
        ELSE IF o.val \in DOMAIN s.compound_children.v
        THEN Return(Some(s.compound_children.v[o.val]))
        ELSE Return(None)

\* ChemblIndexes.get_sources
get_sources(s, drugbase_id) ==
    IF AccessExc(s, "drugbase_id2source_id") # "none"
    THEN Raise(AccessExc(s, "drugbase_id2source_id"))
    ELSE IF drugbase_id \notin DOMAIN s.drugbase_id2source_id.v
    THEN Return(Some({}))
    ELSE LET ids == s.drugbase_id2source_id.v[drugbase_id]
         IN  IF ids = {} THEN Return(Some({}))
             ELSE IF AccessExc(s, "source_map") # "none"
             THEN Raise(AccessExc(s, "source_map"))
             ELSE IF \E i \in ids : i \notin DOMAIN s.source_map.v
             THEN Raise("KeyError")
             ELSE Return(Some({s.source_map.v[i] : i \in ids}))

\* max([x, y])
Max2(x, y) == IF x >= y THEN x ELSE y

\* MaxPhaseOf with a seeded fault: the first phase wins whenever it is present
MaxPhaseOf_first(phase1, phase2) ==
    LET max_phase == IF IsNone(phase1)
                     THEN (IF IsNone(phase2) THEN Sentinel ELSE Val(phase2))
                     ELSE Val(phase1)
    IN  IF max_phase > Sentinel THEN Some(max_phase) ELSE None

\* the last lines of get_phase: the sentinel maximum of the two phases
MaxPhaseOf(phase1, phase2) ==
    LET max_phase == Max2(IF IsNone(phase1) THEN Sentinel ELSE Val(phase1),
                          IF IsNone(phase2) THEN Sentinel ELSE Val(phase2))
    IN  IF max_phase > Sentinel THEN Some(max_phase) ELSE None

\* ChemblIndexes.get_phase
get_phase(s, obj, drugbase_id, molregno, chembl_id) ==
    LET o == ObjOrIdent(s, obj, drugbase_id, molregno, chembl_id)
        p1 == Lookup(s, "mrn2phase", Val(o.val).molregno)
        p2 == Lookup(s, "drugbase_id2phase", Val(o.val).drugbase_id)
    IN  IF o.exc # "none" THEN Raise(o.exc)
        ELSE IF IsNone(o.val) THEN Return(None)
        ELSE IF p1.exc # "none" THEN Raise(p1.exc)
        ELSE IF p2.exc # "none" THEN Raise(p2.exc)
        ELSE Return(MaxPhaseOf(p1.val, p2.val))


\* ------------------------------------------------------- gen_indexes
\* PairStep with a seeded fault: each map is written when its own key is not None
PairStep_ownkey(acc, row) ==
    [fwd |-> IF IsNone(row[1]) THEN acc.fwd ELSE Put(acc.fwd, row[1], row[2]),
     inv |-> IF IsNone(row[2]) THEN acc.inv ELSE Put(acc.inv, row[2], row[1])]

\* the body of the two molecule-dictionary loops: a row <<id, molregno>>
\* with a None is skipped, any other is written to both maps
PairStep(acc, row) ==
    IF IsNone(row[1]) \/ IsNone(row[2]) THEN acc
    ELSE [fwd |-> Put(acc.fwd, row[1], row[2]),
          inv |-> Put(acc.inv, row[2], row[1])]

RECURSIVE PairMaps(_, _)
\* a molecule-dictionary loop over the rows rs
PairMaps(acc, rs) ==
    IF Len(rs) = 0 THEN acc ELSE PairMaps(PairStep(acc, Head(rs)), Tail(rs))

RECURSIVE PhaseMap(_, _)
\* a phase loop: a row <<id, phase>> with a None id is skipped
PhaseMap(acc, rs) ==
    IF Len(rs) = 0 THEN acc
    ELSE PhaseMap(IF IsNone(Head(rs)[1]) THEN acc
                  ELSE Put(acc, Head(rs)[1], Head(rs)[2]), Tail(rs))

RECURSIVE SourceMap(_, _)
\* the source loop: every row <<source_id, source>> is written
SourceMap(acc, rs) ==
    IF Len(rs) = 0 THEN acc
    ELSE SourceMap(Put(acc, Head(rs)[1], Head(rs)[2]), Tail(rs))

RECURSIVE SourceIds(_, _)
\* the source-mapping loop: every row <<drugbase_id, source_id>> is added
SourceIds(acc, rs) ==
    IF Len(rs) = 0 THEN acc
    ELSE SourceIds(AddAll(acc, Head(rs)[1], {Head(rs)[2]}), Tail(rs))

RECURSIVE ChemblHierarchy(_, _, _)
\* the loop over CHEMBL.MOLECULE_HIERARCHY: rows <<molregno, parent_molregno>>
ChemblHierarchy(s, acc, rs) ==
    IF Len(rs) = 0 THEN acc
    ELSE LET child == get_chembl_ident(s, Head(rs)[1], None, None).val
             parent == get_chembl_ident(s, Head(rs)[2], None, None).val
         IN  ChemblHierarchy(s, AddAll(acc, child, {parent}), Tail(rs))

RECURSIVE DrugbaseHierarchy(_, _, _)
\* the loop over DRUGBASE.MOLECULE_HIERARCHY: rows <<id, parent_id, active_id>>
DrugbaseHierarchy(s, acc, rs) ==
    IF Len(rs) = 0 THEN acc
    ELSE LET child == get_chembl_ident(s, None, Head(rs)[1], None).val
             parent == get_chembl_ident(s, None, Head(rs)[2], None).val
             active == get_chembl_ident(s, None, Head(rs)[3], None).val
         IN  DrugbaseHierarchy(s, AddAll(acc, child, {parent, active}), Tail(rs))

\* Invert with a seeded fault: compound_children[v] = {k} in place of .add(k)
Invert_assign(parents) ==
    [v \in UNION {parents[k] : k \in DOMAIN parents} |->
        {CHOOSE k \in DOMAIN parents : v \in parents[k]}]

\* the loop that fills compound_children from compound_parents
Invert(parents) ==
    [v \in UNION {parents[k] : k \in DOMAIN parents} |->
        {k \in DOMAIN parents : v \in parents[k]}]

\* the attributes of self after gen_indexes, the cursor yielding the rows r
Built(s, r) ==
    LET db == PairMaps([fwd |-> EmptyDict, inv |-> EmptyDict], r.drugbase_md)
        ch == PairMaps([fwd |-> EmptyDict, inv |-> EmptyDict], r.chembl_md)
        s1 == [s EXCEPT !.drugbase_id2mrn = DictAttr(db.fwd),
                        !.mrn2drugbase_id = DictAttr(db.inv),
                        !.chembl_id2mrn = DictAttr(ch.fwd),
                        !.mrn2chembl_id = DictAttr(ch.inv),
                        !.mrn2phase = DictAttr(PhaseMap(EmptyDict, r.chembl_phase)),
                        !.drugbase_id2phase =
                            DictAttr(PhaseMap(EmptyDict, r.drugbase_phase)),
                        !.source_map = DictAttr(SourceMap(EmptyDict, r.source)),
                        !.drugbase_id2source_id =
                            DictAttr(SourceIds(EmptyDict, r.source_mapping))]
        parents == DrugbaseHierarchy(s1,
                       ChemblHierarchy(s1, EmptyDict, r.chembl_hierarchy),
                       r.drugbase_hierarchy)
    IN  [s1 EXCEPT !.compound_parents = DictAttr(parents),
                   !.compound_children = DictAttr(Invert(parents))]

\* ----------------------------------------------- save_indexes, load_indexes
\* a file of data_dir
MissingFile == [st |-> "missing", data |-> EmptyDict]
EmptyFile == [st |-> "empty", data |-> EmptyDict]
NullFile == [st |-> "null", data |-> EmptyDict]
OkFile(d) == [st |-> "ok", data |-> d]

null == <<"n", "u", "l", "l">>
\* the JSON object key json.dump writes for a key that is None or an int
JsonIntKey(k) == IF IsNone(k) THEN null ELSE PyStr(Val(k))
\* the JSON object key json.dump writes for a key that is a str
JsonStrKey(k) == Val(k)

\* json.load(json.dump(d)) of a dict with int (or None) keys: the keys come
\* back as strings, the values as they were
JsonOfIntKeyed(d) ==
    [ks \in {JsonIntKey(k) : k \in DOMAIN d} |->
        d[CHOOSE k \in DOMAIN d : JsonIntKey(k) = ks]]
\* the same of a dict with str keys
JsonOfStrKeyed(d) ==
    [ks \in {JsonStrKey(k) : k \in DOMAIN d} |->
        d[CHOOSE k \in DOMAIN d : JsonStrKey(k) = ks]]

RECURSIVE ListOf(_)
\* list(vs) of a set, in some order
ListOf(vs) ==
    IF vs = {} THEN << >>
    ELSE LET x == CHOOSE x \in vs : TRUE IN <<x>> \o ListOf(vs \ {x})
\* set(l) of a list
SetOf(l) == {l[i] : i \in 1..Len(l)}

\* {k.__tuple__(): {v.__tuple__() for v in vs} for k, vs in d.items()}
TuplesOf(d) ==
    [t \in {Ident_tuple(Val(k)) : k \in DOMAIN d} |->
        {Ident_tuple(Val(v)) :
            v \in d[CHOOSE k \in DOMAIN d : Ident_tuple(Val(k)) = t]}]
\* {ChemblIdent(*k): {ChemblIdent(*v) for v in vs} for k, vs in t.items()}
IdentsOf(t) ==
    [k \in {Some(ChemblIdent(x[1], x[2], x[3])) : x \in DOMAIN t} |->
        {Some(ChemblIdent(y[1], y[2], y[3])) :
            y \in t[<<Val(k).chembl_id, Val(k).drugbase_id, Val(k).molregno>>]}]

\* one  with open(...) as f: ...dump(...)  of save_indexes: the exception it
\* raises and the file it leaves. open() has emptied the file before the
\* argument of dump is evaluated.
SaveOne(s, f) ==
    LET a == s[f]
    IN  IF a.st = "unset" THEN [exc |-> "AttributeError", file |-> EmptyFile]
        ELSE IF f \in PickleFields
        THEN IF a.st = "None" \/ None \in DOMAIN a.v
                \/ \E k \in DOMAIN a.v : None \in a.v[k]
             THEN [exc |-> "AttributeError", file |-> EmptyFile]
             ELSE [exc |-> "none", file |-> OkFile(TuplesOf(a.v))]
        ELSE IF f = "drugbase_id2source_id"
        THEN IF a.st = "None"
             THEN [exc |-> "AttributeError", file |-> EmptyFile]
             ELSE [exc |-> "none",
                   file |-> OkFile(JsonOfIntKeyed(
                                [k \in DOMAIN a.v |-> ListOf(a.v[k])]))]
        ELSE IF a.st = "None" THEN [exc |-> "none", file |-> NullFile]
        ELSE IF f = "chembl_id2mrn"
        THEN [exc |-> "none", file |-> OkFile(JsonOfStrKeyed(a.v))]
        ELSE [exc |-> "none", file |-> OkFile(JsonOfIntKeyed(a.v))]

RECURSIVE SaveFrom(_, _, _)
\* save_indexes from its i-th file on: the first exception ends it
SaveFrom(s, d, i) ==
    IF i > Len(Fields) THEN [exc |-> "none", disk |-> d]
    ELSE LET r == SaveOne(s, Fields[i])
         IN  IF r.exc # "none"
             THEN [exc |-> r.exc, disk |-> [d EXCEPT ![Fields[i]] = r.file]]
             ELSE SaveFrom(s, [d EXCEPT ![Fields[i]] = r.file], i + 1)

\* {int(k): v for k, v in json.load(f).items()}
IntKeyed(data) ==
    [k \in {Some(PyInt(ks)) : ks \in DOMAIN data} |->
        data[CHOOSE ks \in DOMAIN data : Some(PyInt(ks)) = k]]

\* one  with open(...) as f: self.f = ...load(f)...  of load_indexes: the
\* exception it raises, or the value it assigns
LoadOne(d, f) ==
    LET file == d[f]
    IN  IF file.st = "missing" THEN [exc |-> "FileNotFoundError", attr |-> UnsetAttr]
        ELSE IF f \in PickleFields
        THEN IF file.st = "empty" THEN [exc |-> "EOFError", attr |-> UnsetAttr]
             ELSE [exc |-> "none", attr |-> DictAttr(IdentsOf(file.data))]
        ELSE IF file.st = "empty" THEN [exc |-> "JSONDecodeError", attr |-> UnsetAttr]
        ELSE IF file.st = "null" THEN [exc |-> "AttributeError", attr |-> UnsetAttr]
        ELSE IF f = "chembl_id2mrn"
        THEN [exc |-> "none",
              attr |-> DictAttr([k \in {Some(ks) : ks \in DOMAIN file.data} |->
                                    file.data[Val(k)]])]
        ELSE IF \E ks \in DOMAIN file.data : ~IsIntLiteral(ks)
        THEN [exc |-> "ValueError", attr |-> UnsetAttr]
        ELSE IF f = "drugbase_id2source_id"
        THEN [exc |-> "none",
              attr |-> DictAttr([k \in DOMAIN IntKeyed(file.data) |->
                                    SetOf(IntKeyed(file.data)[k])])]
        ELSE [exc |-> "none", attr |-> DictAttr(IntKeyed(file.data))]

RECURSIVE LoadFrom(_, _, _)
\* load_indexes from its i-th file on: the first exception ends it, and the
\* attributes assigned before it stay assigned
LoadFrom(s, d, i) ==
    IF i > Len(Fields) THEN [exc |-> "none", self |-> s]
    ELSE LET r == LoadOne(d, Fields[i])
         IN  IF r.exc # "none" THEN [exc |-> r.exc, self |-> s]
             ELSE LoadFrom([s EXCEPT ![Fields[i]] = r.attr], d, i + 1)

\* an instance before __init__ has assigned anything
NewObject == [f \in FieldSet |-> UnsetAttr]

\* the attributes the except branch of __init__ sets to None
ResetFields ==
    {"drugbase_id2mrn", "mrn2drugbase_id", "chembl_id2mrn", "mrn2chembl_id",
     "compound_parents", "compound_children"}

\* ChemblIndexes.__init__ on the files d: load_indexes, and on any exception
\* the six assignments of the except branch
Constructed(d) ==
    LET r == LoadFrom(NewObject, d, 1)
    IN  [exc |-> r.exc,
         self |-> IF r.exc = "none" THEN r.self
                  ELSE [f \in FieldSet |->
                           IF f \in ResetFields THEN NoneAttr ELSE r.self[f]]]


\* ------------------------------------------------------------- inputs
SeqsUpTo(S, n) == UNION {[1..k -> S] : k \in 0..n}

Ids == 0..MaxId
OptIds == {None} \cup {Some(i) : i \in Ids}
ChemblIds == {Some(CHEMBL \o NatStr(i)) : i \in Ids}
OptChemblIds == {None} \cup ChemblIds
Phases == {None, Some(Sentinel)} \cup {Some(p) : p \in 0..MaxPhase}
SourceNames == {Some(<<"F", "D", "A">>)}

\* a cursor that yields no row for any query
NoRows ==
    [drugbase_md |-> << >>, chembl_md |-> << >>, chembl_phase |-> << >>,
     drugbase_phase |-> << >>, source |-> << >>, source_mapping |-> << >>,
     chembl_hierarchy |-> << >>, drugbase_hierarchy |-> << >>]

\* one compound known to both molecule dictionaries
BaseRows ==
    [NoRows EXCEPT !.drugbase_md = << <<Some(1), Some(1)>> >>,
                   !.chembl_md = << <<Some(CHEMBL \o NatStr(1)), Some(1)>> >>]

\* the rows of the build specification: one table varies at a time
BuildRows ==
    {[BaseRows EXCEPT !.drugbase_md = r] :
        r \in SeqsUpTo(OptIds \X OptIds, MaxRows)}
    \cup {[BaseRows EXCEPT !.chembl_md = r] :
        r \in SeqsUpTo(OptChemblIds \X OptIds, MaxRows)}
    \cup {[BaseRows EXCEPT !.chembl_hierarchy = r] :
        r \in SeqsUpTo(OptIds \X OptIds, MaxRows)}
    \cup {[BaseRows EXCEPT !.drugbase_hierarchy = r] :
        r \in SeqsUpTo(OptIds \X OptIds \X OptIds, MaxHierRows)}

\* the rows of the resolution specification: a molecule dictionary varies
ResolveRows ==
    {[BaseRows EXCEPT !.drugbase_md = r] :
        r \in SeqsUpTo(OptIds \X OptIds, MaxQueryRows)}
    \cup {[BaseRows EXCEPT !.chembl_md = r] :
        r \in SeqsUpTo(OptChemblIds \X OptIds, MaxQueryRows)}

\* the rows of the phase specification: the phases of ChEMBL vary, beside
\* no phase, a null phase and a phase in Drugbase
PhaseRows ==
    {[BaseRows EXCEPT !.chembl_phase = r, !.drugbase_phase = q] :
        r \in SeqsUpTo(OptIds \X Phases, MaxQueryRows),
        q \in {<< >>, << <<Some(1), None>> >>, << <<Some(1), Some(1)>> >>}}

\* the rows of the query specification: one row at most in the table, or
\* the two tables, that vary
QueryRows ==
    {[BaseRows EXCEPT !.drugbase_md = r] :
        r \in SeqsUpTo(OptIds \X OptIds, 1)}
    \cup {[BaseRows EXCEPT !.chembl_phase = r, !.drugbase_phase = q] :
        r \in SeqsUpTo(OptIds \X Phases, 1),
        q \in {<< >>, << <<Some(1), Some(0)>> >>}}
    \cup {[BaseRows EXCEPT !.source = r, !.source_mapping = q] :
        r \in SeqsUpTo(OptIds \X SourceNames, 1),
        q \in SeqsUpTo(OptIds \X OptIds, 1)}
    \cup {[BaseRows EXCEPT !.chembl_hierarchy = r] :
        r \in SeqsUpTo(OptIds \X OptIds, 1)}

\* the rows of the persistence specification
PersistRows ==
    {NoRows, BaseRows}
    \cup {[BaseRows EXCEPT !.chembl_hierarchy = r] :
        r \in SeqsUpTo(OptIds \X OptIds, 1)}
    \cup {[BaseRows EXCEPT !.source = r, !.source_mapping = q,
                           !.chembl_phase = << <<Some(1), Some(0)>> >>,
                           !.drugbase_phase = << <<Some(1), None>> >>] :
        r \in SeqsUpTo(OptIds \X SourceNames, 1),
        q \in SeqsUpTo(OptIds \X OptIds, 1)}

\* the identifiers compared: the constructor validates nothing
DigitStrings == UNION {[1..k -> {"0", "1"}] : k \in 1..MaxDigits}
IdentInts == {None} \cup {Some(i) : i \in NullKey..MaxId}
Idents ==
    {ChemblIdent(c, d, m) :
        c \in {None} \cup {Some(CHEMBL \o ds) : ds \in DigitStrings},
        d \in IdentInts, m \in IdentInts}

\* the identifiers handed to get_parents, get_children and get_phase as obj
QueryObjs ==
    {None} \cup {Some(ChemblIdent(c, d, m)) :
                    c \in OptChemblIds, d \in OptIds, m \in OptIds}

\* -------------------------------------------------------------- states
NoFiles == [f \in FieldSet |-> MissingFile]
NoRet == [op |-> "none", args |-> << >>, exc |-> "none", val |-> None]
NoIdent == ChemblIdent(None, None, None)

\* ChemblIndexes(data_dir) on an empty data_dir
InitStore ==
    /\ self = Constructed(NoFiles).self
    /\ disk = NoFiles
    /\ last = [op |-> "__init__", exc |-> Constructed(NoFiles).exc]
    /\ ret = NoRet

Init ==
    /\ rows \in PersistRows
    /\ InitStore
    /\ lhs = NoIdent /\ rhs = NoIdent

InitBuild ==
    /\ rows \in BuildRows
    /\ InitStore
    /\ lhs = NoIdent /\ rhs = NoIdent

InitQuery ==
    /\ rows \in QueryRows
    /\ InitStore
    /\ lhs = NoIdent /\ rhs = NoIdent

InitResolve ==
    /\ rows \in ResolveRows
    /\ InitStore
    /\ lhs = NoIdent /\ rhs = NoIdent

InitPhase ==
    /\ rows \in PhaseRows
    /\ InitStore
    /\ lhs = NoIdent /\ rhs = NoIdent

InitIdent ==
    /\ rows = NoRows
    /\ InitStore
    /\ lhs \in Idents /\ rhs \in Idents

\* ------------------------------------------------------------- actions
\* ChemblIndexes.gen_indexes
gen_indexes ==
    /\ self' = Built(self, rows)
    /\ last' = [op |-> "gen_indexes", exc |-> "none"]
    /\ ret' = NoRet
    /\ UNCHANGED <<rows, disk, lhs, rhs>>

\* ChemblIndexes.save_indexes
save_indexes ==
    /\ disk' = SaveFrom(self, disk, 1).disk
    /\ last' = [op |-> "save_indexes", exc |-> SaveFrom(self, disk, 1).exc]
    /\ ret' = NoRet
    /\ UNCHANGED <<rows, self, lhs, rhs>>

\* ChemblIndexes.load_indexes, called on the instance
load_indexes ==
    /\ self' = LoadFrom(self, disk, 1).self
    /\ last' = [op |-> "load_indexes", exc |-> LoadFrom(self, disk, 1).exc]
    /\ ret' = NoRet
    /\ UNCHANGED <<rows, disk, lhs, rhs>>

\* ChemblIndexes.__init__: a fresh instance over the same data_dir
Construct ==
    /\ self' = Constructed(disk).self
    /\ last' = [op |-> "__init__", exc |-> Constructed(disk).exc]
    /\ ret' = NoRet
    /\ UNCHANGED <<rows, disk, lhs, rhs>>

\* the environment: a file of a complete data_dir goes missing or is cut short
Damage ==
    \E f \in FieldSet, st \in {"missing", "empty"} :
        /\ Cardinality({g \in FieldSet : disk[g].st # "ok"}) < MaxDamaged
        /\ disk' = [disk EXCEPT ![f] = [st |-> st, data |-> EmptyDict]]
        /\ last' = [op |-> "damage", exc |-> "none"]
        /\ ret' = NoRet
        /\ UNCHANGED <<rows, self, lhs, rhs>>

\* ret holds one call. A query changes nothing of the store, so a call made
\* after another is the same call made first: the query actions start from
\* ret = NoRet.
Answer(op, args, r) == [op |-> op, args |-> args, exc |-> r.exc, val |-> r.val]

call_get_molregno ==
    \E d \in OptIds, c \in OptChemblIds :
        /\ ret = NoRet
        /\ ret' = Answer("get_molregno", <<d, c>>, get_molregno(self, d, c))
        /\ UNCHANGED <<rows, self, disk, last, lhs, rhs>>

call_get_drugbase_id ==
    \E m \in OptIds :
        /\ ret = NoRet
        /\ ret' = Answer("get_drugbase_id", <<m>>, get_drugbase_id(self, m))
        /\ UNCHANGED <<rows, self, disk, last, lhs, rhs>>

call_get_chembl_id ==
    \E m \in OptIds :
        /\ ret = NoRet
        /\ ret' = Answer("get_chembl_id", <<m>>, get_chembl_id(self, m))
        /\ UNCHANGED <<rows, self, disk, last, lhs, rhs>>

call_get_chembl_ident ==
    \E m \in OptIds, d \in OptIds, c \in OptChemblIds :
        /\ ret = NoRet
        /\ ret' = Answer("get_chembl_ident", <<m, d, c>>,
                         get_chembl_ident(self, m, d, c))
        /\ UNCHANGED <<rows, self, disk, last, lhs, rhs>>

call_get_sources ==
    \E d \in OptIds :
        /\ ret = NoRet
        /\ ret' = Answer("get_sources", <<d>>, get_sources(self, d))
        /\ UNCHANGED <<rows, self, disk, last, lhs, rhs>>

\* obj is given, or else the three ids are
ObjArgs ==
    {<<o, None, None, None>> : o \in QueryObjs \ {None}}
    \cup {<<None, d, m, c>> : d \in OptIds, m \in OptIds, c \in OptChemblIds}

call_get_parents ==
    \E a \in ObjArgs :
        /\ ret = NoRet
        /\ ret' = Answer("get_parents", a, get_parents(self, a[1], a[2], a[3], a[4]))
        /\ UNCHANGED <<rows, self, disk, last, lhs, rhs>>

call_get_children ==
    \E a \in ObjArgs :
        /\ ret = NoRet
        /\ ret' = Answer("get_children", a, get_children(self, a[1], a[2], a[3], a[4]))
        /\ UNCHANGED <<rows, self, disk, last, lhs, rhs>>

call_get_phase ==
    \E a \in ObjArgs :
        /\ ret = NoRet
        /\ ret' = Answer("get_phase", a, get_phase(self, a[1], a[2], a[3], a[4]))
        /\ UNCHANGED <<rows, self, disk, last, lhs, rhs>>

\* lhs < rhs, rhs < lhs and lhs == rhs
Compare ==
    /\ ret.op # "compare"
    /\ ret' = [op |-> "compare", lt |-> Ident_lt(lhs, rhs),
               gt |-> Ident_lt(rhs, lhs), eq |-> Ident_eq(lhs, rhs)]
    /\ UNCHANGED <<rows, self, disk, last, lhs, rhs>>

\* ------------------------------------------------------ specifications
\* persistence: build, save, damage, load
Next ==
    \/ gen_indexes
    \/ save_indexes
    \/ load_indexes
    \/ Construct
    \/ Damage
Spec == Init /\ [][Next]_vars

\* build over many row sets
NextBuild ==
    \/ gen_indexes
    \/ save_indexes
SpecBuild == InitBuild /\ [][NextBuild]_vars

\* every query on a built or loaded store
NextQuery ==
    \/ gen_indexes
    \/ save_indexes
    \/ Construct
    \/ call_get_molregno
    \/ call_get_drugbase_id
    \/ call_get_chembl_id
    \/ call_get_chembl_ident
    \/ call_get_sources
    \/ call_get_parents
    \/ call_get_children
    \/ call_get_phase
SpecQuery == InitQuery /\ [][NextQuery]_vars

\* resolution of identifiers on a built store
NextResolve ==
    \/ gen_indexes
    \/ call_get_molregno
    \/ call_get_drugbase_id
    \/ call_get_chembl_id
    \/ call_get_chembl_ident
SpecResolve == InitResolve /\ [][NextResolve]_vars

\* get_phase on a built store
NextPhase ==
    \/ gen_indexes
    \/ call_get_phase
SpecPhase == InitPhase /\ [][NextPhase]_vars

\* comparison of identifiers
NextIdent == Compare
SpecIdent == InitIdent /\ [][NextIdent]_vars


\* --------------------------------------------------------- properties
AllDict(s) == \A f \in FieldSet : s[f].st = "dict"
Built_now == last.op = "gen_indexes"

\* g[f[k]] = k for every key k of f, and f[g[m]] = m for every key m of g
Inverse(f, g) ==
    /\ \A k \in DOMAIN f : f[k] \in DOMAIN g /\ g[f[k]] = k
    /\ \A m \in DOMAIN g : g[m] \in DOMAIN f /\ f[g[m]] = m

\* among the rows that are not skipped, no id comes with two molregnos and
\* no molregno with two ids
OneToOne(rs) ==
    \A i, j \in 1..Len(rs) :
        (~IsNone(rs[i][1]) /\ ~IsNone(rs[i][2])
            /\ ~IsNone(rs[j][1]) /\ ~IsNone(rs[j][2]))
        => ((rs[i][1] = rs[j][1]) <=> (rs[i][2] = rs[j][2]))

\* C1 as stated: after gen_indexes over any rows, drugbase_id2mrn and
\* mrn2drugbase_id are exact inverses, and so are chembl_id2mrn and
\* mrn2chembl_id.
C1_InverseForAnyRows ==
    Built_now =>
        /\ Inverse(self.drugbase_id2mrn.v, self.mrn2drugbase_id.v)
        /\ Inverse(self.chembl_id2mrn.v, self.mrn2chembl_id.v)

\* C1 amended: after gen_indexes, each pair of maps whose source rows are
\* one-to-one (no id with two molregnos, no molregno with two ids) is a pair
\* of exact inverses.
C1_InverseForOneToOneRows ==
    Built_now =>
        /\ OneToOne(rows.drugbase_md)
            => Inverse(self.drugbase_id2mrn.v, self.mrn2drugbase_id.v)
        /\ OneToOne(rows.chembl_md)
            => Inverse(self.chembl_id2mrn.v, self.mrn2chembl_id.v)

C1_Witness ==
    /\ Built_now
    /\ OneToOne(rows.drugbase_md)
    /\ Cardinality(DOMAIN self.drugbase_id2mrn.v) >= 2
    /\ \E k \in DOMAIN self.drugbase_id2mrn.v : self.drugbase_id2mrn.v[k] # k

\* C2 as stated: when load_indexes fails, in the constructor or called on
\* the instance, every map attribute is None afterwards: none keeps data
\* read before the failure and none is left unassigned.
C2_FailedLoadLeavesAllNone ==
    (last.op \in {"__init__", "load_indexes"} /\ last.exc # "none")
        => \A f \in FieldSet : self[f].st = "None"

\* C3: after gen_indexes, c is in compound_children[p] for every p in
\* compound_parents[c], and p is in compound_parents[c] for every c in
\* compound_children[p].
C3_HierarchyMutualInverse ==
    Built_now =>
        /\ \A c \in DOMAIN self.compound_parents.v :
              \A p \in self.compound_parents.v[c] :
                  p \in DOMAIN self.compound_children.v
                      /\ c \in self.compound_children.v[p]
        /\ \A p \in DOMAIN self.compound_children.v :
              \A c \in self.compound_children.v[p] :
                  c \in DOMAIN self.compound_parents.v
                      /\ p \in self.compound_parents.v[c]

C3_Witness ==
    /\ Built_now
    /\ \E c \in DOMAIN self.compound_parents.v :
          /\ Cardinality(self.compound_parents.v[c]) >= 2
          /\ \A p \in self.compound_parents.v[c] :
                c \in self.compound_children.v[p]

\* the identifier get_phase works on: obj, or the one made of the three ids
PhaseObj ==
    IF IsNone(ret.args[1])
    THEN get_chembl_ident(self, ret.args[3], ret.args[2], ret.args[4]).val
    ELSE ret.args[1]
\* the phase a map holds under a key, as a set: empty for a missing key and
\* for a key that holds None
PhasesAt(m, k) ==
    IF k \in DOMAIN m /\ ~IsNone(m[k]) THEN {Val(m[k])} ELSE {}
PhasesOf(o) ==
    PhasesAt(self.mrn2phase.v, Val(o).molregno)
        \cup PhasesAt(self.drugbase_id2phase.v, Val(o).drugbase_id)
MaxOf(S) == CHOOSE x \in S : \A y \in S : y <= x

\* C4 as stated: get_phase returns None iff mrn2phase lacks the resolved
\* molregno and drugbase_id2phase lacks the resolved drugbase_id, and
\* otherwise the maximum of the phases present.
C4_AbsentIffKeysMissing ==
    (AllDict(self) /\ ret.op = "get_phase") =>
        /\ ret.exc = "none"
        /\ IsNone(ret.val) <=>
              (IsNone(PhaseObj)
               \/ (Val(PhaseObj).molregno \notin DOMAIN self.mrn2phase.v
                   /\ Val(PhaseObj).drugbase_id
                          \notin DOMAIN self.drugbase_id2phase.v))
        /\ ~IsNone(ret.val) => ret.val = Some(MaxOf(PhasesOf(PhaseObj)))

\* C4 amended: get_phase returns None iff the identifier does not resolve or
\* neither map holds, under the resolved molregno and drugbase_id, a phase
\* that is not None and is above -5; otherwise it returns the maximum of the
\* phases held that are not None.
C4_AbsentIffNoPhase ==
    (AllDict(self) /\ ret.op = "get_phase") =>
        /\ ret.exc = "none"
        /\ IsNone(ret.val) <=>
              (IsNone(PhaseObj) \/ \A x \in PhasesOf(PhaseObj) : x <= Sentinel)
        /\ ~IsNone(ret.val) => ret.val = Some(MaxOf(PhasesOf(PhaseObj)))

C4_Witness ==
    /\ AllDict(self) /\ ret.op = "get_phase"
    /\ ~IsNone(PhaseObj)
    /\ Val(PhaseObj).molregno \in DOMAIN self.mrn2phase.v
    /\ Val(PhaseObj).drugbase_id \in DOMAIN self.drugbase_id2phase.v
    /\ IsNone(self.mrn2phase.v[Val(PhaseObj).molregno])
    /\ ~IsNone(self.drugbase_id2phase.v[Val(PhaseObj).drugbase_id])
    /\ ret.val = self.drugbase_id2phase.v[Val(PhaseObj).drugbase_id]
    /\ Val(ret.val) > Sentinel

\* d.get(k) of a dict
Get(d, k) == IF k \in DOMAIN d THEN d[k] ELSE None
\* the reference of C5 for resolve(molregno, drugbase_id, chembl_id)
RefIdent(m, d, c) ==
    LET mm == IF ~IsNone(m) THEN m
              ELSE IF d \in DOMAIN self.drugbase_id2mrn.v
              THEN self.drugbase_id2mrn.v[d]
              ELSE Get(self.chembl_id2mrn.v, c)
        cc == IF ~IsNone(c) THEN c ELSE Get(self.mrn2chembl_id.v, mm)
        dd == IF ~IsNone(d) THEN d ELSE Get(self.mrn2drugbase_id.v, mm)
    IN  IF IsNone(mm) /\ IsNone(cc) /\ IsNone(dd) THEN None
        ELSE Some(ChemblIdent(cc, dd, mm))

\* C5: get_chembl_ident returns the reference identifier: molregno is the
\* given one, else the one of the given drugbase_id, else the one of the given
\* chembl_id; chembl_id and drugbase_id are the given ones, else those of that
\* molregno; and the result is None exactly when all three are None.
C5_ResolveIsReference ==
    (AllDict(self) /\ ret.op = "get_chembl_ident") =>
        /\ ret.exc = "none"
        /\ ret.val = RefIdent(ret.args[1], ret.args[2], ret.args[3])

\* the maps of a store
Maps(s) == [f \in FieldSet |-> s[f].v]

\* C6: save_indexes completes on every store gen_indexes can produce, and a
\* fresh instance constructed over the files it wrote holds the same maps.
C6_SaveLoadRoundTrip ==
    /\ (last.op = "save_indexes" /\ self = Built(self, rows))
          => last.exc = "none"
    /\ (last.op = "__init__"
          /\ disk = SaveFrom(Built(self, rows), disk, 1).disk)
          => (AllDict(self) /\ Maps(self) = Maps(Built(self, rows)))

\* C7: on a store that was built or loaded, no query raises, and get_sources
\* returns a set, the empty one for a drugbase_id without a mapping.
C7_NoQueryRaises ==
    (AllDict(self) /\ ret.op # "none") =>
        /\ ret.exc = "none"
        /\ ret.op = "get_sources" =>
              /\ ~IsNone(ret.val)
              /\ ret.args[1] \notin DOMAIN self.drugbase_id2source_id.v
                    => ret.val = Some({})

ExactlyOne(x, y, z) ==
    \/ x /\ ~y /\ ~z
    \/ ~x /\ y /\ ~z
    \/ ~x /\ ~y /\ z

IdentFields == {"chembl_id", "drugbase_id", "molregno"}
\* x has None where y has a value, and they agree elsewhere
NullWhereValue(x, y) ==
    \E f \in IdentFields :
        /\ IsNone(x[f]) /\ ~IsNone(y[f])
        /\ \A g \in IdentFields \ {f} : x[g] = y[g]

\* the ids of the database: numbers from 0 up, and "CHEMBL" followed by the
\* decimal digits of a number from 0 up, without leading zeros
CanonicalDigits(ds) ==
    /\ Len(ds) >= 1
    /\ \A i \in 1..Len(ds) : IsDigit(ds[i])
    /\ Len(ds) > 1 => ds[1] # "0"
Canonical(x) ==
    /\ IsNone(x.chembl_id)
          \/ /\ SubSeq(Val(x.chembl_id), 1, PrefixLen) = CHEMBL
             /\ CanonicalDigits(SubSeq(Val(x.chembl_id), PrefixLen + 1,
                                       Len(Val(x.chembl_id))))
    /\ IsNone(x.drugbase_id) \/ Val(x.drugbase_id) >= 0
    /\ IsNone(x.molregno) \/ Val(x.molregno) >= 0

\* C9 as stated: for any two identifiers exactly one of a < b, a == b, b < a
\* holds, < is transitive, and an identifier with a None field is below the
\* one that differs from it only by a value in that field.
C9_TotalOrder ==
    ret.op = "compare" =>
        /\ ExactlyOne(ret.lt, ret.eq, ret.gt)
        /\ \A z \in Idents : (ret.lt /\ Ident_lt(rhs, z)) => Ident_lt(lhs, z)
        /\ NullWhereValue(lhs, rhs) => ret.lt

\* C9 amended: the same, for identifiers whose drugbase_id and molregno are
\* not negative and whose chembl_id is "CHEMBL" followed by a number from 0 up
\* written without leading zeros.
C9_TotalOrderOnCanonical ==
    (ret.op = "compare" /\ Canonical(lhs) /\ Canonical(rhs)) =>
        /\ ExactlyOne(ret.lt, ret.eq, ret.gt)
        /\ \A z \in Idents :
              (Canonical(z) /\ ret.lt /\ Ident_lt(rhs, z)) => Ident_lt(lhs, z)
        /\ NullWhereValue(lhs, rhs) => ret.lt

C9_Witness ==
    /\ ret.op = "compare" /\ Canonical(lhs) /\ Canonical(rhs)
    /\ NullWhereValue(lhs, rhs) /\ ret.lt /\ ~ret.eq /\ ~ret.gt
    /\ IsNone(lhs.molregno) /\ rhs.molregno = Some(0)

\* C10: after gen_indexes, every key of compound_parents and
\* compound_children and every member of their sets is an identifier with a
\* field that is not None; None is never a key or a member.
C10_HierarchyHoldsIdentifiers ==
    Built_now =>
        \A h \in {self.compound_parents.v, self.compound_children.v} :
            \A k \in DOMAIN h : \A x \in {k} \cup h[k] :
                /\ ~IsNone(x)
                /\ \E f \in IdentFields : ~IsNone(Val(x)[f])

=============================================================================
